---- MODULE Spec2Model ----
(***************************************************************************)
(* Model of src/rabbit.client.js: the Connect client, its process-wide     *)
(* ConnectionPool (Connections / DeadConnections / retry) and the          *)
(* reconnect logic driven by transport and channel close events.           *)
(*                                                                         *)
(* The amqplib transport is the environment.  A transport is created by a  *)
(* successful connect, is "open" until close() is called on it ("closing") *)
(* or the broker drops it, and delivers exactly one 'close' event, after   *)
(* which it is "closed".  close() on a closing or closed transport does    *)
(* nothing.  The close event carries no error or an error text; the        *)
(* handler of the source searches the text for '320'.                      *)
(***************************************************************************)
EXTENDS Integers, Sequences, FiniteSets, TLC

\* ---------------------------------------------------------------- bounds
NumGuids == 2            \* Connect objects that may be constructed
MaxRetry == 2            \* the maxRetry argument given to every constructor
MaxTransports == 2       \* successful amqp.connect calls in one run
MaxPending == 2          \* timers + connects in flight per guid when revive is called
AttemptCap == 3          \* connect failures are delivered while connectionAttempts < AttemptCap
ChannelAttemptCap == 3   \* channel closes are delivered while channelAttempts < ChannelAttemptCap
MaxChannels == 2         \* channels the broker grants per transport and queue
FailureCap == 2          \* the 'failure' observer counts up to FailureCap

Guids == 1..NumGuids
TIds == 1..MaxTransports

\* ------------------------------------------------------------ value sets
Undefined == "undefined"
NoTransport == 0                       \* this.connection = {} (line 53)
EmptyConfig == "{}"                    \* this.configInternal = {} (line 55)
Configs == {"cfgA"}
ConfigVals == Configs \cup {EmptyConfig}

\* RabbitHandler descriptors (lines 290-296): queueConfig and messageRate.
Orders == [queueConfig |-> "orders", messageRate |-> 5]
Audit == [queueConfig |-> "audit", messageRate |-> 1]
Descs == {Orders, Audit}
NoHandlers == <<>>                     \* this.registeredHandlers = [] (line 54)

\* Error texts a close event may carry; NoErr is a close event without error.
NoErr == <<>>
ErrReset == <<"E", "O", "F">>
ErrForced == <<"3", "2", "0", ":", "F">>
Errs == {NoErr, ErrReset, ErrForced}

\* Who issued a connect and so what its .then continuation registers:
\* the caller (lines 30-31), reviveConnection (260-262), the timer of the
\* close handler (360-364) or the timer of the catch handler (388-392).
Kinds == {"user", "revive", "close", "catch"}
TimerKinds == {"close", "catch"}

VARIABLES
    created,             \* [Guids -> BOOLEAN]: the Connect object exists
    connectionAttempts,  \* this.connectionAttempts
    channelAttempts,     \* this.channelAttempts
    connection,          \* this.connection: a transport id, or NoTransport
    registeredHandlers,  \* this.registeredHandlers: a list, or Undefined
    handlers,            \* this.handlers: the property the caller may set
    callerHandlers,      \* the list the caller passes to registerHandlers
    configInternal,      \* this.configInternal
    Connections,         \* ConnectionPool.Connections (sequence of guids)
    DeadConnections,     \* ConnectionPool.DeadConnections
    retry,               \* ConnectionPool.retry
    transports,          \* sequence of [st, owner, config], one per transport created
    channels,            \* [TIds -> [Descs -> Nat]]: open consuming channels
    chanReq,             \* [TIds -> [Descs -> Nat]]: createChannel calls in flight
    timers,              \* [Guids -> [TimerKinds \X Configs -> Nat]]: pending setTimeout callbacks
    inflight,            \* [Guids -> [Kinds \X Configs -> Nat]]: amqp.connect calls in flight
    failures,            \* [Guids -> Nat]: 'failure' events emitted (observer)
    genericCloses,       \* [Guids -> Nat]: consecutive non-forced closes (observer)
    crashed,             \* an event handler threw: the process is gone
    hooked,              \* Connections is the array that got the push/splice of lines 285-286
    notified,            \* ConnectionPoolChanged calls of the step just taken, per array (observer)
    publisher,           \* the promise registerPublisher returned: "none" before the call
    last                 \* the step just taken (observer)

vars == <<created, connectionAttempts, channelAttempts, connection, registeredHandlers,
          handlers, callerHandlers, configInternal, Connections, DeadConnections, retry,
          transports, channels, chanReq, timers, inflight, failures,
          genericCloses, crashed, hooked, notified, publisher, last>>

\* ------------------------------------------------------- pure operators
Min(a, b) == IF a < b THEN a ELSE b

\* The sum of f over S, for f with values in 0..MaxCount.
MaxCount == 6
SumOver(f, S) == Cardinality({p \in S \X (1..MaxCount) : p[2] <= f[p[1]]})

\* String.prototype.indexOf (line 349): first position of sub in str, from 0;
\* -1 when sub does not occur.
IndexOf(str, sub) ==
    LET hits == {i \in 1..(Len(str) - Len(sub) + 1) :
                    SubSeq(str, i, i + Len(sub) - 1) = sub}
    IN IF hits = {} THEN -1 ELSE (CHOOSE i \in hits : \A j \in hits : i <= j) - 1

Code320 == <<"3", "2", "0">>

\* lines 345-353: serverDisconnect
ServerDisconnect(err) == err # NoErr /\ IndexOf(err, Code320) > -1

\* lines 49-50
maxRetries(g) == MaxRetry
maxChannelRetries(g) == MaxRetry

\* findWithAttr (lines 68-75): index of the first entry with the guid, from 1;
\* 0 stands for the undefined the source returns (undefined >= 0 is false).
findWithAttr(array, g) ==
    LET hits == {i \in 1..Len(array) : array[i] = g}
    IN IF hits = {} THEN 0 ELSE CHOOSE i \in hits : \A j \in hits : i <= j

\* Array.prototype.splice(i, 1)
Splice(array, i) == SubSeq(array, 1, i - 1) \o SubSeq(array, i + 1, Len(array))

InPool(array, g) == findWithAttr(array, g) > 0
Count(array, g) == Cardinality({i \in 1..Len(array) : array[i] = g})

\* Transport.close(): an open transport starts closing; otherwise nothing.
CloseTransport(ts, t) ==
    IF t \in 1..Len(ts) /\ ts[t].st = "open"
    THEN [ts EXCEPT ![t].st = "closing"]
    ELSE ts

IsOpen(ts, t) == t \in 1..Len(ts) /\ ts[t].st = "open"

\* ------------------------------------------------- ConnectionPool methods
\* Each takes the pool state and returns the new one as a record
\* [C |-> Connections, D |-> DeadConnections, T |-> transports].

\* removeConnection (lines 124-142)
removeConnection(C, D, T, conn, g) ==
    LET indexFound == findWithAttr(C, g)
    IN IF indexFound >= 1
       THEN [C |-> Splice(C, indexFound),
             D |-> Append(D, C[indexFound]),
             T |-> CloseTransport(T, conn[C[indexFound]])]
       ELSE [C |-> C, D |-> D, T |-> T]

\* addConnection (lines 170-187)
addConnection(C, D, g) ==
    LET indexFound == findWithAttr(D, g)
    IN [C |-> Append(C, g),
        D |-> IF indexFound >= 1 THEN Splice(D, indexFound) ELSE D]

\* addDeadConnection (lines 188-191)
addDeadConnection(D, g) == Append(D, g)

\* removeConnFromAllPools (lines 208-225)
removeConnFromAllPools(C, D, g) ==
    LET indexFound1 == findWithAttr(C, g)
        indexFound2 == findWithAttr(D, g)
    IN [C |-> IF indexFound1 >= 1 THEN Splice(C, indexFound1) ELSE C,
        D |-> IF indexFound2 >= 1 THEN Splice(D, indexFound2) ELSE D]

\* The loop of flushPoolRetry (lines 230-235), from index i (from 1 here):
\* close, push to dead, splice(i, 1), then i++.
RECURSIVE FlushRetryLoop(_, _, _, _, _)
FlushRetryLoop(C, D, T, conn, i) ==
    IF i <= Len(C)
    THEN FlushRetryLoop(Splice(C, i), Append(D, C[i]),
                        CloseTransport(T, conn[C[i]]), conn, i + 1)
    ELSE [C |-> C, D |-> D, T |-> T]

\* The loop of flushPoolNoRetry (lines 243-246); Connections is replaced after it.
RECURSIVE FlushNoRetryLoop(_, _, _, _, _)
FlushNoRetryLoop(C, D, T, conn, i) ==
    IF i <= Len(C)
    THEN FlushNoRetryLoop(C, Append(D, C[i]), CloseTransport(T, conn[C[i]]), conn, i + 1)
    ELSE [C |-> <<>>, D |-> D, T |-> T]

\* ------------------------------------------------ pool change notification
\* ConnectionPoolChanged (lines 276-283) is called by the push and splice
\* that lines 285-288 put on the two arrays that exist when the module is
\* loaded.  h says whether Connections is still that array.  Each operator
\* gives the calls made by one pool method: alive counts those made by
\* Connections.push/splice, dead those made by DeadConnections.push/splice.
Notes(a, d) == [alive |-> a, dead |-> d]
NoNotes == Notes(0, 0)
AddNotes(m, n) == Notes(m.alive + n.alive, m.dead + n.dead)
ByConnections(h, n) == IF h THEN n ELSE 0

\* removeConnection: push on DeadConnections (131), splice on Connections (132)
removeConnectionNotes(C, g, h) ==
    IF InPool(C, g) THEN Notes(ByConnections(h, 1), 1) ELSE NoNotes

\* addConnection: splice on DeadConnections (176), push on Connections (186)
addConnectionNotes(D, g, h) ==
    Notes(ByConnections(h, 1), IF InPool(D, g) THEN 1 ELSE 0)

\* addDeadConnection: push on DeadConnections (190)
addDeadConnectionNotes == Notes(0, 1)

\* removeConnFromAllPools: splice on Connections (213), on DeadConnections (221)
removeConnFromAllPoolsNotes(C, D, g, h) ==
    Notes(IF InPool(C, g) THEN ByConnections(h, 1) ELSE 0,
          IF InPool(D, g) THEN 1 ELSE 0)

\* flushPoolRetry: one push (233) and one splice (234) per iteration; the
\* iterations are the entries that left the array.
flushPoolRetryNotes(C, C1, h) ==
    Notes(ByConnections(h, Len(C) - Len(C1)), Len(C) - Len(C1))

\* flushPoolNoRetry: one push on DeadConnections per entry (246); the
\* assignment of line 248 calls nothing.
flushPoolNoRetryNotes(C) == Notes(0, Len(C))

\* --------------------------------------------------------- registerHandlers
\* registerHandlers (lines 446-467) called with h on connection g while the
\* pool's alive list is C, the handler list is rh and this.connection is t.
\* list: registeredHandlers afterwards (line 448, then line 159 through
\* addHandlerConnPool, which writes h into the same object when g is alive);
\* throws: forEach on undefined (line 453).
RegisteredAfter(C, g, rh, h) ==
    LET first == IF h # Undefined THEN h ELSE rh
    IN IF InPool(C, g) THEN h ELSE first

\* A forEach that stops after its first descriptor.
RequestsFirstOnly(req, T, t, list) ==
    IF list = Undefined \/ ~IsOpen(T, t) \/ list = <<>>
    THEN req
    ELSE [req EXCEPT ![t][list[1]] = @ + 1]

\* createChannel calls issued by the forEach (lines 453-455, 417): one per
\* descriptor, on the transport held when registerHandlers runs; a call on a
\* transport that is not open fails and is only logged.
RequestsAfter(req, T, t, list) ==
    IF list = Undefined \/ ~IsOpen(T, t)
    THEN req
    ELSE [req EXCEPT ![t] = [d \in Descs |->
             req[t][d] + Cardinality({i \in 1..Len(list) : list[i] = d})]]

\* ------------------------------------------------------------------ state
ZeroChannels == [t \in TIds |-> [d \in Descs |-> 0]]

\* The observer's record of the last step that changed the state: the
\* operation, the connection and the transport it was about, the error text
\* of a close event, whether the step called registerHandlers ("ran": to the
\* end, "threw": it threw), who issued the connect the step is about, and
\* what the step gave back to its caller (res).
Step(op, g, t, err, reg, kind) ==
    [op |-> op, g |-> g, t |-> t, err |-> err, reg |-> reg, kind |-> kind,
     res |-> "none"]

Init ==
    /\ created = [g \in Guids |-> FALSE]
    /\ connectionAttempts = [g \in Guids |-> 0]
    /\ channelAttempts = [g \in Guids |-> 0]
    /\ connection = [g \in Guids |-> NoTransport]
    /\ registeredHandlers = [g \in Guids |-> NoHandlers]
    /\ handlers = [g \in Guids |-> Undefined]
    /\ callerHandlers = [g \in Guids |-> Undefined]
    /\ configInternal = [g \in Guids |-> EmptyConfig]
    /\ Connections = <<>>
    /\ DeadConnections = <<>>
    /\ retry = TRUE
    /\ transports = <<>>
    /\ channels = ZeroChannels
    /\ chanReq = ZeroChannels
    /\ timers = [g \in Guids |-> [k \in TimerKinds \X ConfigVals |-> 0]]
    /\ inflight = [g \in Guids |-> [k \in Kinds \X ConfigVals |-> 0]]
    /\ failures = [g \in Guids |-> 0]
    /\ genericCloses = [g \in Guids |-> 0]
    /\ crashed = FALSE
    /\ hooked = TRUE
    /\ notified = NoNotes
    /\ publisher = "none"
    /\ last = Step("init", 0, 0, NoErr, "none", "none")

\* Reconnect attempts of g that exist now: pending timers and connects in flight.
Pending(g) == SumOver(timers[g], TimerKinds \X ConfigVals)
              + SumOver(inflight[g], Kinds \X ConfigVals)

Alive(g) == InPool(Connections, g)
Dead(g) == InPool(DeadConnections, g)

\* emit('failure', ...) (lines 368, 396), as seen by a listener that counts.
Emit(f, g) == [f EXCEPT ![g] = Min(f[g] + 1, FailureCap)]

\* ---------------------------------------------------------------- actions
\* new Connect(customLogger, maxRetry) (lines 46-57)
Construct(g) ==
    /\ ~crashed
    /\ ~created[g]
    /\ \A h \in Guids : h < g => created[h]
    /\ created' = [created EXCEPT ![g] = TRUE]
    /\ connectionAttempts' = [connectionAttempts EXCEPT ![g] = 0]
    /\ channelAttempts' = [channelAttempts EXCEPT ![g] = 0]
    /\ connection' = [connection EXCEPT ![g] = NoTransport]
    /\ registeredHandlers' = [registeredHandlers EXCEPT ![g] = NoHandlers]
    /\ configInternal' = [configInternal EXCEPT ![g] = EmptyConfig]
    /\ last' = Step("Construct", g, 0, NoErr, "none", "none")
    /\ UNCHANGED <<handlers, callerHandlers, Connections, DeadConnections, retry,
                   transports, channels, chanReq, timers, inflight, failures, genericCloses, crashed>>
    /\ notified' = NoNotes
    /\ UNCHANGED <<hooked, publisher>>

\* connect(config) up to the call of amqp.connect (lines 321-325).
connect(g, config, kind) ==
    /\ configInternal' = [configInternal EXCEPT ![g] = config]
    /\ inflight' = [inflight EXCEPT ![g][<<kind, config>>] = @ + 1]

\* The caller's first use, as in the example of lines 28-34: optionally
\* client.handlers = hs, then client.connect(config).then(registerHandlers(hs)).
UserConnect(g, config, hs, setProp) ==
    /\ ~crashed
    /\ created[g]
    /\ configInternal[g] = EmptyConfig
    /\ handlers' = [handlers EXCEPT ![g] = IF setProp THEN hs ELSE @]
    /\ callerHandlers' = [callerHandlers EXCEPT ![g] = hs]
    /\ connect(g, config, "user")
    /\ last' = Step("UserConnect", g, 0, NoErr, "none", "none")
    /\ UNCHANGED <<created, connectionAttempts, channelAttempts, connection,
                   registeredHandlers, Connections, DeadConnections, retry, transports,
                   channels, chanReq, timers, failures, genericCloses, crashed>>
    /\ notified' = NoNotes
    /\ UNCHANGED <<hooked, publisher>>

\* What the .then chained to connect() passes to registerHandlers
\* (lines 31, 261, 362, 390), read when the continuation runs.
ContinuationArg(g, kind) ==
    CASE kind = "user" -> callerHandlers[g]
      [] kind = "revive" -> registeredHandlers[g]
      [] kind = "close" -> registeredHandlers[g]
      [] kind = "catch" -> handlers[g]

\* A success path that counts the attempt and does not reset the counter.
AttemptsCounted(a) == a

\* lines 330 and 374: the counter is incremented, then reset.
AttemptsAfterSuccess(a) == 0

\* amqp.connect succeeded: the .then of lines 325-380, then the continuation
\* chained by whoever issued the connect (it runs before any other event).
ConnectOk(g, kind, config) ==
    /\ ~crashed
    /\ inflight[g][<<kind, config>>] > 0
    /\ Len(transports) < MaxTransports
    /\ LET t == Len(transports) + 1
           rm == removeConnection(Connections, DeadConnections, transports, connection, g)
           ad == addConnection(rm.C, rm.D, g)
           T1 == Append(rm.T, [st |-> "open", owner |-> g, config |-> config])
           list == RegisteredAfter(ad.C, g, registeredHandlers[g], ContinuationArg(g, kind))
       IN /\ inflight' = [inflight EXCEPT ![g][<<kind, config>>] = @ - 1]
          /\ connectionAttempts' = [connectionAttempts EXCEPT
                                      ![g] = AttemptsAfterSuccess(@ + 1)]
          /\ channelAttempts' = [channelAttempts EXCEPT ![g] = 0]
          /\ Connections' = ad.C
          /\ DeadConnections' = ad.D
          /\ transports' = T1
          /\ connection' = [connection EXCEPT ![g] = t]
          /\ registeredHandlers' = [registeredHandlers EXCEPT ![g] = list]
          /\ chanReq' = RequestsAfter(chanReq, T1, t, list)
          /\ last' = Step("ConnectOk", g, t, NoErr,
                          IF list = Undefined THEN "threw" ELSE "ran", kind)
    /\ UNCHANGED <<created, handlers, callerHandlers, configInternal, retry, channels,
                   timers, failures, genericCloses, crashed>>
    /\ notified' = AddNotes(removeConnectionNotes(Connections, g, hooked),
                             addConnectionNotes(removeConnection(Connections, DeadConnections,
                                                    transports, connection, g).D, g, hooked))
    /\ UNCHANGED <<hooked, publisher>>

\* A catch handler that still retries with the counter at maxRetries.
CatchRetriesInclusive(g, attempts) == attempts <= maxRetries(g)

\* line 386: the catch handler retries while this holds.
CatchRetries(g, attempts) == attempts < maxRetries(g)

\* amqp.connect failed: the .catch of lines 382-400.  It returns normally, so
\* the promise connect() returned is fulfilled and the chained continuation
\* runs registerHandlers as well.
ConnectFail(g, kind, config) ==
    /\ ~crashed
    /\ inflight[g][<<kind, config>>] > 0
    /\ connectionAttempts[g] < AttemptCap
    /\ LET a == connectionAttempts[g] + 1
           again == CatchRetries(g, a)
           rfa == removeConnFromAllPools(Connections, DeadConnections, g)
           C1 == IF again THEN Connections ELSE rfa.C
           D1 == IF again THEN DeadConnections ELSE addDeadConnection(rfa.D, g)
           list == RegisteredAfter(C1, g, registeredHandlers[g], ContinuationArg(g, kind))
       IN /\ inflight' = [inflight EXCEPT ![g][<<kind, config>>] = @ - 1]
          /\ connectionAttempts' = [connectionAttempts EXCEPT ![g] = a]
          /\ timers' = IF again
                       THEN [timers EXCEPT ![g][<<"catch", config>>] = @ + 1]
                       ELSE timers
          /\ failures' = IF again THEN failures ELSE Emit(failures, g)
          /\ genericCloses' = [genericCloses EXCEPT ![g] = 0]
          /\ Connections' = C1
          /\ DeadConnections' = D1
          /\ registeredHandlers' = [registeredHandlers EXCEPT ![g] = list]
          /\ chanReq' = RequestsAfter(chanReq, transports, connection[g], list)
          /\ last' = Step("ConnectFail", g, 0, NoErr,
                          IF list = Undefined THEN "threw" ELSE "ran", kind)
    /\ UNCHANGED <<created, channelAttempts, connection, handlers, callerHandlers,
                   configInternal, retry, transports, channels, crashed>>
    /\ notified' = IF CatchRetries(g, connectionAttempts[g] + 1)
                    THEN NoNotes
                    ELSE AddNotes(removeConnFromAllPoolsNotes(Connections, DeadConnections,
                                                              g, hooked),
                                  addDeadConnectionNotes)
    /\ UNCHANGED <<hooked, publisher>>

\* A setTimeout callback runs (lines 360-364 and 388-392): context.connect(config).
TimerFire(g, kind, config) ==
    /\ ~crashed
    /\ timers[g][<<kind, config>>] > 0
    /\ timers' = [timers EXCEPT ![g][<<kind, config>>] = @ - 1]
    /\ connect(g, config, kind)
    /\ last' = Step("TimerFire", g, 0, NoErr, "none", kind)
    /\ UNCHANGED <<created, connectionAttempts, channelAttempts, connection,
                   registeredHandlers, handlers, callerHandlers, Connections,
                   DeadConnections, retry, transports, channels, chanReq, failures, genericCloses,
                   crashed>>
    /\ notified' = NoNotes
    /\ UNCHANGED <<hooked, publisher>>

\* The retry condition without its server-disconnect disjunct.
CloseRetriesBudgetOnly(g, attempts, poolRetry, err) ==
    attempts < maxRetries(g) /\ poolRetry

\* line 358: the close handler schedules a reconnect when this holds.
CloseRetries(g, attempts, poolRetry, err) ==
    (attempts < maxRetries(g) /\ poolRetry) \/ ServerDisconnect(err)

\* The 'close' event of transport t (lines 339-371).  The channels of the
\* transport are gone with it.
CloseEvent(t, err) ==
    /\ ~crashed
    /\ t \in 1..Len(transports)
    /\ transports[t].st \in {"open", "closing"}
    /\ LET g == transports[t].owner
           config == transports[t].config
           T0 == [transports EXCEPT ![t].st = "closed"]
           rm == removeConnection(Connections, DeadConnections, T0, connection, g)
           again == CloseRetries(g, connectionAttempts[g], retry, err)
       IN /\ Connections' = rm.C
          /\ DeadConnections' = rm.D
          /\ transports' = rm.T
          /\ timers' = IF again
                       THEN [timers EXCEPT ![g][<<"close", config>>] = @ + 1]
                       ELSE timers
          /\ failures' = IF again THEN failures ELSE Emit(failures, g)
          /\ genericCloses' = [genericCloses EXCEPT
                                 ![g] = IF ServerDisconnect(err) THEN 0 ELSE @ + 1]
          /\ last' = Step("CloseEvent", g, t, err, "none", "none")
    /\ channels' = [channels EXCEPT ![t] = [d \in Descs |-> 0]]
    /\ chanReq' = [chanReq EXCEPT ![t] = [d \in Descs |-> 0]]
    /\ UNCHANGED <<created, connectionAttempts, channelAttempts, connection,
                   registeredHandlers, handlers, callerHandlers, configInternal, retry,
                   inflight, crashed>>
    /\ notified' = removeConnectionNotes(Connections, transports[t].owner, hooked)
    /\ UNCHANGED <<hooked, publisher>>

\* The 'error' event of transport t (lines 333-338).
ErrorEvent(t, message) ==
    /\ ~crashed
    /\ t \in 1..Len(transports)
    /\ transports[t].st = "open"
    /\ transports' = IF message # "Connection closing"
                     THEN CloseTransport(transports, t)
                     ELSE transports
    /\ last' = IF message # "Connection closing"
               THEN Step("ErrorEvent", transports[t].owner, t, NoErr, "none", "none")
               ELSE last
    /\ UNCHANGED <<created, connectionAttempts, channelAttempts, connection,
                   registeredHandlers, handlers, callerHandlers, configInternal,
                   Connections, DeadConnections, retry, channels, chanReq, timers,
                   inflight, failures, genericCloses, crashed>>
    /\ notified' = IF message # "Connection closing" THEN NoNotes ELSE notified
    /\ UNCHANGED <<hooked, publisher>>

\* createChannel completed on transport t for descriptor d (lines 417-437,
\* 456-458): the close handler is attached, prefetch(d.messageRate) is set and
\* the channel consumes from d.queueConfig.
ChannelOpened(t, d) ==
    /\ ~crashed
    /\ chanReq[t][d] > 0
    /\ IsOpen(transports, t)
    /\ channels[t][d] < MaxChannels
    /\ chanReq' = [chanReq EXCEPT ![t][d] = @ - 1]
    /\ channels' = [channels EXCEPT ![t][d] = @ + 1]
    /\ last' = Step("ChannelOpened", transports[t].owner, t, NoErr, "none", "none")
    /\ UNCHANGED <<created, connectionAttempts, channelAttempts, connection,
                   registeredHandlers, handlers, callerHandlers, configInternal,
                   Connections, DeadConnections, retry, transports, timers, inflight,
                   failures, genericCloses, crashed>>
    /\ notified' = NoNotes
    /\ UNCHANGED <<hooked, publisher>>

\* createChannel (or the consume that follows) failed: the .catch of
\* lines 460-464 logs the error.
ChannelOpenFailed(t, d) ==
    /\ ~crashed
    /\ chanReq[t][d] > 0
    /\ chanReq' = [chanReq EXCEPT ![t][d] = @ - 1]
    /\ last' = Step("ChannelOpenFailed", transports[t].owner, t, NoErr, "none", "none")
    /\ UNCHANGED <<created, connectionAttempts, channelAttempts, connection,
                   registeredHandlers, handlers, callerHandlers, configInternal,
                   Connections, DeadConnections, retry, transports, channels, timers,
                   inflight, failures, genericCloses, crashed>>
    /\ notified' = NoNotes
    /\ UNCHANGED <<hooked, publisher>>

\* A channel close handler that registers again whatever the count is.
ChannelRetriesAlways(g, attempts) == TRUE

\* A channel close handler that leaves the connection's counter alone.
AttemptsKept(g, a) == a

\* line 431: context.connectionAttempts = context.maxRetries
AttemptsAfterChannelBudget(g, a) == maxRetries(g)

\* line 425: the channel close handler registers again while this holds.
ChannelRetries(g, attempts) == maxChannelRetries(g) > attempts

\* The 'close' event of a channel of transport t (lines 422-434).  The handler
\* belongs to the Connect object that owns t, and registerHandlers opens the
\* new channels on the transport that object holds now.  A throw out of this
\* handler is an uncaught exception.
ChannelClose(t, d) ==
    /\ ~crashed
    /\ t \in 1..Len(transports)
    /\ transports[t].st \in {"open", "closing"}
    /\ channels[t][d] > 0
    /\ channelAttempts[transports[t].owner] < ChannelAttemptCap
    /\ LET g == transports[t].owner
           ca == channelAttempts[g] + 1
           again == ChannelRetries(g, ca)
           list == RegisteredAfter(Connections, g, registeredHandlers[g],
                                   registeredHandlers[g])
           rm == removeConnection(Connections, DeadConnections, transports, connection, g)
       IN /\ channels' = [channels EXCEPT ![t][d] = @ - 1]
          /\ channelAttempts' = [channelAttempts EXCEPT ![g] = ca]
          /\ IF again
             THEN /\ registeredHandlers' = [registeredHandlers EXCEPT ![g] = list]
                  /\ chanReq' = RequestsAfter(chanReq, transports, connection[g], list)
                  /\ crashed' = (list = Undefined)
                  /\ last' = Step("ChannelClose", g, t, NoErr,
                                  IF list = Undefined THEN "threw" ELSE "ran", "none")
                  /\ UNCHANGED <<connectionAttempts, Connections, DeadConnections,
                                 transports>>
             ELSE /\ connectionAttempts' = [connectionAttempts EXCEPT
                                              ![g] = AttemptsAfterChannelBudget(g, @)]
                  /\ Connections' = rm.C
                  /\ DeadConnections' = rm.D
                  /\ transports' = rm.T
                  /\ last' = Step("ChannelClose", g, t, NoErr, "none", "none")
                  /\ UNCHANGED <<registeredHandlers, chanReq, crashed>>
    /\ UNCHANGED <<created, connection, handlers, callerHandlers, configInternal, retry,
                   timers, inflight, failures, genericCloses>>
    /\ notified' = IF ChannelRetries(transports[t].owner,
                                      channelAttempts[transports[t].owner] + 1)
                    THEN NoNotes
                    ELSE removeConnectionNotes(Connections, transports[t].owner, hooked)
    /\ UNCHANGED <<hooked, publisher>>

\* The config reviveConnection passes to connect (line 260).
ReviveConfig(g) == configInternal[g]

\* ConnectionPool.reviveConnection(guid) (lines 251-273)
reviveConnection(g) ==
    /\ ~crashed
    /\ created[g]
    /\ Pending(g) < MaxPending
    /\ IF findWithAttr(DeadConnections, g) >= 1
       THEN connect(g, ReviveConfig(g), "revive")
       ELSE UNCHANGED <<configInternal, inflight>>
    /\ last' = IF findWithAttr(DeadConnections, g) >= 1
               THEN Step("reviveConnection", g, 0, NoErr, "none", "none")
               ELSE last
    /\ UNCHANGED <<created, connectionAttempts, channelAttempts, connection,
                   registeredHandlers, handlers, callerHandlers, Connections,
                   DeadConnections, retry, transports, channels, chanReq, timers,
                   failures, genericCloses, crashed>>
    /\ notified' = IF findWithAttr(DeadConnections, g) >= 1 THEN NoNotes ELSE notified
    /\ UNCHANGED <<hooked, publisher>>

\* ConnectionPool.flushPoolRetry() (lines 226-237)
flushPoolRetry ==
    /\ ~crashed
    /\ LET r == FlushRetryLoop(Connections, DeadConnections, transports, connection, 1)
       IN /\ Connections' = r.C
          /\ DeadConnections' = r.D
          /\ transports' = r.T
    /\ retry' = TRUE
    /\ last' = IF Connections # <<>> \/ ~retry
               THEN Step("flushPoolRetry", 0, 0, NoErr, "none", "none")
               ELSE last
    /\ UNCHANGED <<created, connectionAttempts, channelAttempts, connection,
                   registeredHandlers, handlers, callerHandlers, configInternal,
                   channels, chanReq, timers, inflight, failures, genericCloses, crashed>>
    /\ notified' = IF Connections # <<>> \/ ~retry
                    THEN flushPoolRetryNotes(Connections,
                             FlushRetryLoop(Connections, DeadConnections, transports,
                                            connection, 1).C, hooked)
                    ELSE notified
    /\ UNCHANGED <<hooked, publisher>>

\* ConnectionPool.flushPoolNoRetry() (lines 238-250)
flushPoolNoRetry ==
    /\ ~crashed
    /\ LET r == FlushNoRetryLoop(Connections, DeadConnections, transports, connection, 1)
       IN /\ Connections' = r.C
          /\ DeadConnections' = r.D
          /\ transports' = r.T
    /\ retry' = FALSE
    /\ last' = IF Connections # <<>> \/ retry \/ hooked
               THEN Step("flushPoolNoRetry", 0, 0, NoErr, "none", "none")
               ELSE last
    /\ UNCHANGED <<created, connectionAttempts, channelAttempts, connection,
                   registeredHandlers, handlers, callerHandlers, configInternal,
                   channels, chanReq, timers, inflight, failures, genericCloses, crashed>>
    /\ notified' = IF Connections # <<>> \/ retry \/ hooked
                    THEN flushPoolNoRetryNotes(Connections)
                    ELSE notified
    /\ hooked' = FALSE
    /\ UNCHANGED publisher

\* Every array is truthy in JavaScript, the empty one included.
Truthy(array) == TRUE

\* ConnectionPool.getConnection(guid) (lines 192-207): what the call gives
\* its caller.  Line 195 reads indexFound, which no scope declares (the
\* function declares indexFound1 and indexFound2): reading it throws a
\* ReferenceError.
getConnectionResult(C, D, g) ==
    IF Truthy(C)
    THEN "threw"
    ELSE IF Truthy(D) /\ findWithAttr(D, g) >= 1
         THEN "dead"
         ELSE "undefined"

\* A caller looks guid g up in the pool.
getConnection(g) ==
    /\ ~crashed
    /\ last' = [Step("getConnection", g, 0, NoErr, "none", "none") EXCEPT
                  !.res = getConnectionResult(Connections, DeadConnections, g)]
    /\ UNCHANGED <<created, connectionAttempts, channelAttempts, connection,
                   registeredHandlers, handlers, callerHandlers, configInternal,
                   Connections, DeadConnections, retry, transports, channels,
                   chanReq, timers, inflight, failures, genericCloses, crashed>>
    /\ notified' = NoNotes
    /\ UNCHANGED <<hooked, publisher>>

\* Everything registerPublisher and its callbacks leave alone.
PublisherFrame ==
    /\ notified' = NoNotes
    /\ UNCHANGED <<created, connectionAttempts, channelAttempts, connection,
                   registeredHandlers, handlers, callerHandlers, configInternal,
                   Connections, DeadConnections, retry, transports, channels,
                   chanReq, timers, inflight, failures, genericCloses, crashed,
                   hooked>>

\* registerPublisher(config, amqpConn) (lines 474-478): the promise is
\* created and amqpConn.createChannel is called on transport t.
registerPublisher(t) ==
    /\ ~crashed
    /\ t \in 1..Len(transports)
    /\ publisher = "none"
    /\ publisher' = "creating"
    /\ last' = Step("registerPublisher", transports[t].owner, t, NoErr, "none", "none")
    /\ PublisherFrame

\* The callback of createChannel (lines 478-484): with an error it rejects;
\* otherwise it calls ch.checkExchange.
createChannelCallback(err) ==
    /\ ~crashed
    /\ publisher = "creating"
    /\ publisher' = IF err THEN "rejected" ELSE "checking"
    /\ last' = [Step("createChannelCallback", 0, 0, NoErr, "none", "none") EXCEPT
                  !.res = IF err THEN "err" ELSE "ch"]
    /\ PublisherFrame

\* The callback of checkExchange (lines 485-492): with an error it logs and
\* calls neither resolve nor reject ("unsettled": pending, with no callback
\* left that could settle it); otherwise it resolves with the channel.
checkExchangeCallback(err) ==
    /\ ~crashed
    /\ publisher = "checking"
    /\ publisher' = IF err THEN "unsettled" ELSE "resolved"
    /\ last' = [Step("checkExchangeCallback", 0, 0, NoErr, "none", "none") EXCEPT
                  !.res = IF err THEN "err" ELSE "ok"]
    /\ PublisherFrame

\* ------------------------------------------------------------------ claims
\* Two values of the registeredHandlers property are the same: both
\* undefined, or the same list of descriptors.
SameList(a, b) ==
    IF a # Undefined /\ b # Undefined
    THEN a = b
    ELSE ~(a # Undefined) /\ ~(b # Undefined)

\* C1: every constructed Connection is in exactly one of Connections and
\* DeadConnections, at any time from its construction on.
C1_ExactlyOneSet ==
    \A g \in Guids :
        created[g] => Count(Connections, g) + Count(DeadConnections, g) = 1

\* C2: after maxRetries consecutive non-forced closes, every reconnect in
\* between having succeeded, the connection is dead, no reconnect is
\* scheduled and 'failure' has been emitted exactly once.
C2_DeadAfterMaxCloses ==
    \A g \in Guids :
        (last.op = "CloseEvent" /\ last.g = g /\ genericCloses[g] = maxRetries(g))
        => /\ Dead(g)
           /\ ~Alive(g)
           /\ Pending(g) = 0
           /\ failures[g] = 1

\* C3: a close event whose error carries the code 320 schedules exactly one
\* reconnect for its connection and emits no 'failure', whatever the
\* attempt counter and the pool's retry flag are.
C3_ForcedCloseAlwaysRetried ==
    [][(last'.op = "CloseEvent" /\ ServerDisconnect(last'.err))
       => LET g == last'.g
              config == transports[last'.t].config
          IN /\ timers'[g][<<"close", config>>] = timers[g][<<"close", config>>] + 1
             /\ failures' = failures]_vars

\* C3 witness: a forced close handled with the counter at maxRetries and the
\* pool's retry flag off, and its reconnect timer pending.
C3_Witness ==
    /\ last.op = "CloseEvent"
    /\ ServerDisconnect(last.err)
    /\ connectionAttempts[last.g] = maxRetries(last.g)
    /\ ~retry
    /\ failures[last.g] = 0
    /\ timers[last.g][<<"close", transports[last.t].config>>] > 0

\* C4: while the pool's retry flag is off (from flushPoolNoRetry until
\* flushPoolRetry), no reconnect timer issues a connect.
C4_NoConnectWhileNoRetry ==
    last.op = "TimerFire" => retry

\* C5: when flushPoolRetry returns, the alive set is empty.
C5_FlushRetryEmptiesAlive ==
    last.op = "flushPoolRetry" => Connections = <<>>

\* C6: registerHandlers is not run by the continuation of a connect attempt
\* that failed.
C6_NoRegistrationAfterFailedConnect ==
    last.op = "ConnectFail" => last.reg = "none"

\* C7: at most one reconnect attempt (pending timer or connect in flight)
\* exists per guid.
C7_OneAttemptPerGuid ==
    \A g \in Guids : Pending(g) <= 1


\* C8: reviveConnection on a dead connection issues one connect with the
\* connection's configInternal and changes nothing else; when that connect
\* succeeds the connection is alive and not dead, its handler list is the
\* one it held (a list of descriptors, which does not change while the
\* connection is dead), and registration runs to the end, requesting one
\* channel per descriptor of that list on the new transport;
\* reviveConnection on a guid that is not dead changes nothing.
C8_ReviveReconnectsAndRegisters ==
    [][\A g \in Guids :
        /\ (last'.op = "reviveConnection" /\ last'.g = g)
           => /\ Dead(g)
              /\ configInternal[g] \in Configs
              /\ inflight' = [inflight EXCEPT
                                ![g][<<"revive", configInternal[g]>>] = @ + 1]
              /\ UNCHANGED <<configInternal, Connections, DeadConnections,
                             registeredHandlers, transports, timers, chanReq>>
        /\ (reviveConnection(g) /\ ~Dead(g)) => UNCHANGED vars
        /\ (Dead(g) /\ ~Alive(g) /\ ~Alive(g)')
           => SameList(registeredHandlers'[g], registeredHandlers[g])
        /\ (last'.op = "ConnectOk" /\ last'.kind = "revive" /\ last'.g = g)
           => /\ Alive(g)'
              /\ ~Dead(g)'
              /\ transports'[last'.t].config = configInternal[g]
              /\ registeredHandlers[g] # Undefined
              /\ SameList(registeredHandlers'[g], registeredHandlers[g])
              /\ last'.reg = "ran"
              /\ chanReq'[last'.t] =
                   [d \in Descs |->
                      Cardinality({i \in 1..Len(registeredHandlers[g]) :
                                     registeredHandlers[g][i] = d})]]_vars

\* C9: a successful connect of a connection that has connected before, and
\* holds a list of descriptors, leaves registeredHandlers as it was and runs
\* registration to the end.
C9_SameListAfterReconnect ==
    [][\A g \in Guids :
        (/\ last'.op = "ConnectOk"
         /\ last'.g = g
         /\ connection[g] # NoTransport
         /\ registeredHandlers[g] # Undefined
         /\ registeredHandlers[g] # NoHandlers)
        => /\ SameList(registeredHandlers'[g], registeredHandlers[g])
           /\ last'.reg = "ran"]_vars

\* C10: a channel close counts one against the budget; the close that
\* uses the budget up takes an alive connection out of Connections, into
\* DeadConnections, and closes its transport, whose close event is still to
\* come; a connection with more closes than the budget is not alive; a
\* close below the budget leaves both sets as they are.
C10_ChannelBudgetRemovesConnection ==
    [][\A g \in Guids :
        /\ channelAttempts'[g] > maxChannelRetries(g)
           => (~Alive(g)' /\ Dead(g)')
        /\ (last'.op = "ChannelClose" /\ last'.g = g)
           => /\ channelAttempts'[g] = channelAttempts[g] + 1
              /\ (channelAttempts'[g] >= maxChannelRetries(g) /\ Alive(g))
                 => /\ ~Alive(g)'
                    /\ Dead(g)'
                    /\ transports'[connection[g]].st = "closing"
              /\ channelAttempts'[g] < maxChannelRetries(g)
                 => /\ Connections' = Connections
                    /\ DeadConnections' = DeadConnections]_vars

\* C10 witness: the channel close handler has run more often than the
\* budget allows, the connection is dead and not alive, and its transport
\* has been closed by the handler but has not emitted its close event.
C10_Witness ==
    /\ last.op = "ChannelClose"
    /\ channelAttempts[last.g] > maxChannelRetries(last.g)
    /\ Dead(last.g)
    /\ ~Alive(last.g)
    /\ transports[connection[last.g]].st = "closing"

\* C11: for a connection none of whose connects has succeeded, every failed
\* connect counts one; below maxRetries it leaves exactly one retry pending
\* and emits nothing; the failure that makes the count maxRetries leaves no
\* attempt pending, has emitted 'failure' once in all, and leaves the
\* connection dead (once) and not alive.
C11_FailingConnectExhaustsBudget ==
    [][\A g \in Guids :
        (/\ last'.op = "ConnectFail"
         /\ last'.g = g
         /\ connection[g] = NoTransport
         /\ failures[g] = 0)
        => /\ Pending(g) = 1
           /\ connectionAttempts'[g] = connectionAttempts[g] + 1
           /\ connectionAttempts'[g] <= maxRetries(g)
           /\ IF connectionAttempts'[g] < maxRetries(g)
              THEN /\ Pending(g)' = 1
                   /\ SumOver(timers'[g], TimerKinds \X ConfigVals) = 1
                   /\ failures'[g] = 0
                   /\ ~Dead(g)'
                   /\ ~Alive(g)'
              ELSE /\ Pending(g)' = 0
                   /\ failures'[g] = 1
                   /\ Count(DeadConnections', g) = 1
                   /\ ~Alive(g)']_vars

\* C11 witness: the maxRetries-th connect of a connection that never
\* connected has just failed.
C11_Witness ==
    /\ last.op = "ConnectFail"
    /\ connection[last.g] = NoTransport
    /\ connectionAttempts[last.g] = maxRetries(last.g)
    /\ failures[last.g] = 1
    /\ Pending(last.g) = 0
    /\ Dead(last.g)
    /\ ~Alive(last.g)

\* C12: the step that emits 'failure' for a connection leaves it dead and
\* not alive, with no reconnect of the close handler pending (as a timer or
\* as a connect in flight); and once it is dead with 'failure' emitted and
\* nothing pending, every step other than reviveConnection(guid) keeps it so.
C12_DeadUntilRevived ==
    [][\A g \in Guids :
        /\ failures'[g] > failures[g]
           => /\ Dead(g)'
              /\ ~Alive(g)'
              /\ \A config \in ConfigVals :
                    /\ timers'[g][<<"close", config>>] = 0
                    /\ inflight'[g][<<"close", config>>] = 0
        /\ (/\ failures[g] > 0
            /\ Dead(g) /\ ~Alive(g) /\ Pending(g) = 0
            /\ ~(last'.op = "reviveConnection" /\ last'.g = g /\ last' # last))
           => (Dead(g)' /\ ~Alive(g)' /\ Pending(g)' = 0)]_vars

\* C13: getConnection does not throw and gives the connection of the guid
\* from Connections, else from DeadConnections, else undefined.
C13_LookupNeverThrows ==
    last.op = "getConnection"
    => last.res = (IF Alive(last.g) THEN "alive"
                   ELSE IF Dead(last.g) THEN "dead"
                   ELSE "undefined")

\* C14: a step that changes the content of Connections calls
\* ConnectionPoolChanged at least once from Connections.push/splice, and a
\* step that changes the content of DeadConnections calls it at least once
\* from DeadConnections.push/splice.
C14_EveryChangeNotified ==
    [][/\ Connections' # Connections => notified'.alive >= 1
       /\ DeadConnections' # DeadConnections => notified'.dead >= 1]_vars

\* C15: registerPublisher and its callbacks leave Connections and
\* DeadConnections as they are; the promise is rejected when createChannel
\* gives an error, and when checkExchange has answered it is resolved if the
\* exchange exists and rejected if the check gave an error.
C15_PublisherAlwaysSettles ==
    [][/\ last'.op \in {"registerPublisher", "createChannelCallback",
                        "checkExchangeCallback"}
          => UNCHANGED <<Connections, DeadConnections>>
       /\ (last'.op = "createChannelCallback" /\ last'.res = "err")
          => publisher' = "rejected"
       /\ last'.op = "checkExchangeCallback"
          => publisher' = (IF last'.res = "err" THEN "rejected" ELSE "resolved")]_vars

\* C16: right after the k-th consecutive non-forced close of a connection,
\* k < maxRetries, its attempt counter is k and, with the pool's retry flag
\* on, a reconnect is pending.
C16_CounterCountsGenericCloses ==
    \A g \in Guids :
        (/\ last.op = "CloseEvent"
         /\ last.g = g
         /\ ~ServerDisconnect(last.err)
         /\ genericCloses[g] < maxRetries(g))
        => /\ connectionAttempts[g] = genericCloses[g]
           /\ retry => Pending(g) >= 1

\* C17: the channel close that uses the channel budget up sets the
\* connection's attempt counter to maxRetries; a non-forced transport close
\* handled with the counter at maxRetries schedules no reconnect, emits
\* 'failure' once and leaves the connection dead and not alive.
C17_ChannelBudgetExhaustsConnection ==
    [][\A g \in Guids :
        /\ (/\ last'.op = "ChannelClose"
            /\ last'.g = g
            /\ channelAttempts'[g] >= maxChannelRetries(g))
           => connectionAttempts'[g] = maxRetries(g)
        /\ (/\ last'.op = "CloseEvent"
            /\ last'.g = g
            /\ ~ServerDisconnect(last'.err)
            /\ connectionAttempts[g] = maxRetries(g))
           => /\ timers'[g] = timers[g]
              /\ inflight'[g] = inflight[g]
              /\ failures'[g] = Min(failures[g] + 1, FailureCap)
              /\ Dead(g)'
              /\ ~Alive(g)']_vars

\* C17 witness: with the pool's retry flag on, the transport of a connection
\* whose channel budget is used up has closed without error: one 'failure',
\* nothing pending, the connection dead.
C17_Witness ==
    /\ last.op = "CloseEvent"
    /\ ~ServerDisconnect(last.err)
    /\ retry
    /\ channelAttempts[last.g] >= maxChannelRetries(last.g)
    /\ connectionAttempts[last.g] = maxRetries(last.g)
    /\ failures[last.g] = 1
    /\ Pending(last.g) = 0
    /\ Dead(last.g)
    /\ ~Alive(last.g)

\* C18: a successful connect leaves both counters of the connection at
\* zero, the connection once in Connections and not in DeadConnections, and
\* this.connection naming the transport the connect created, which is open.
C18_StateAfterSuccessfulConnect ==
    [][\A g \in Guids :
        (last'.op = "ConnectOk" /\ last'.g = g)
        => /\ connectionAttempts'[g] = 0
           /\ channelAttempts'[g] = 0
           /\ Count(Connections', g) = 1
           /\ Count(DeadConnections', g) = 0
           /\ connection'[g] = Len(transports) + 1
           /\ Len(transports') = Len(transports) + 1
           /\ transports'[connection'[g]].owner = g
           /\ transports'[connection'[g]].st = "open"]_vars

\* C18 witness: a connect issued by the timer of the catch handler (so after
\* at least one failed attempt) has succeeded for a connection that had
\* connected before.
C18_Witness ==
    /\ last.op = "ConnectOk"
    /\ last.kind = "catch"
    /\ last.t > 1
    /\ connectionAttempts[last.g] = 0
    /\ channelAttempts[last.g] = 0
    /\ Count(Connections, last.g) = 1
    /\ ~Dead(last.g)
    /\ connection[last.g] = last.t

\* C19: a run of registerHandlers on an open transport asks for one channel
\* per descriptor of the list; and the failure of one of these requests
\* takes that one request away and leaves every other request, every open
\* channel, both pool arrays, both counters and the handler list as they are.
C19_HandlerSetupIsIndependent ==
    [][\A g \in Guids :
        /\ (/\ last'.op \in {"ConnectOk", "ChannelClose"}
            /\ last'.g = g
            /\ last'.reg = "ran"
            /\ IsOpen(transports', connection'[g]))
           => \A d \in Descs :
                 chanReq'[connection'[g]][d] =
                    chanReq[connection'[g]][d]
                    + Cardinality({i \in 1..Len(registeredHandlers'[g]) :
                                     registeredHandlers'[g][i] = d})
        /\ (last'.op = "ChannelOpenFailed" /\ last'.g = g)
           => /\ \E d \in Descs :
                    /\ chanReq[last'.t][d] > 0
                    /\ chanReq' = [chanReq EXCEPT ![last'.t][d] = @ - 1]
              /\ UNCHANGED <<channels, Connections, DeadConnections, transports,
                             connectionAttempts, channelAttempts,
                             registeredHandlers, timers, inflight, failures>>]_vars

\* C19 witness: on an open transport of a connection that registered both
\* descriptors and has had no channel close, the request for Orders is gone
\* without a channel (it failed) and the channel for Audit has just opened.
C19_Witness ==
    /\ last.op = "ChannelOpened"
    /\ IsOpen(transports, last.t)
    /\ connection[last.g] = last.t
    /\ registeredHandlers[last.g] = <<Orders, Audit>>
    /\ channelAttempts[last.g] = 0
    /\ chanReq[last.t][Orders] = 0
    /\ channels[last.t][Orders] = 0
    /\ channels[last.t][Audit] = 1
    /\ Alive(last.g)

\* C20: an open transport carries at most one open consuming channel per
\* handler descriptor.
C20_OneChannelPerDescriptor ==
    \A t \in TIds, d \in Descs :
        IsOpen(transports, t) => channels[t][d] <= 1

\* C21: a close event of a transport that is no longer the current transport
\* of its connection (a later connect of the same guid succeeded and took its
\* place) leaves the current transport in the state it was in, leaves the
\* connection in the alive set if it was there, and schedules no reconnect.
C21_StaleCloseIsIgnored ==
    [][\A g \in Guids, t \in TIds :
        (/\ last'.op = "CloseEvent"
         /\ last'.g = g
         /\ last'.t = t
         /\ t \in 1..Len(transports)
         /\ transports[t].st # "closed"
         /\ transports'[t].st = "closed"
         /\ connection[g] \in 1..Len(transports)
         /\ connection[g] > t
         /\ transports[connection[g]].owner = g)
        => /\ transports'[connection[g]].st = transports[connection[g]].st
           /\ (InPool(Connections, g) => InPool(Connections', g))
           /\ timers'[g] = timers[g]]_vars

\* The life of one Connect object whose caller registers one handler, in
\* every interleaving of the broker's connect results and transport events
\* with the pool's callers.  The channels the registration asks for are
\* granted, refused and closed in SpecChannels.
Next ==
    \/ \E g \in {1} : Construct(g)
    \/ \E g \in Guids, config \in Configs, setProp \in BOOLEAN :
          UserConnect(g, config, <<Orders>>, setProp)
    \/ \E g \in Guids, kind \in Kinds, config \in ConfigVals : ConnectOk(g, kind, config)
    \/ \E g \in Guids, kind \in Kinds, config \in ConfigVals : ConnectFail(g, kind, config)
    \/ \E g \in Guids, kind \in TimerKinds, config \in ConfigVals : TimerFire(g, kind, config)
    \/ \E t \in TIds, err \in Errs : CloseEvent(t, err)
    \/ \E t \in TIds, message \in {"Connection closing", "Unexpected close"} :
          ErrorEvent(t, message)
    \/ \E g \in Guids : reviveConnection(g)
    \/ flushPoolRetry
    \/ flushPoolNoRetry

Spec == Init /\ [][Next]_vars

\* Several Connect objects sharing the pool, with a broker that accepts
\* every connect and drops transports, and callers that flush the pool,
\* look connections up and register a publisher.
NextPool ==
    \/ \E g \in Guids : Construct(g)
    \/ \E g \in Guids, config \in Configs : UserConnect(g, config, <<Orders>>, TRUE)
    \/ \E g \in Guids, kind \in Kinds, config \in ConfigVals : ConnectOk(g, kind, config)
    \/ \E g \in Guids, kind \in TimerKinds, config \in ConfigVals : TimerFire(g, kind, config)
    \/ \E t \in TIds, err \in Errs : CloseEvent(t, err)
    \/ flushPoolRetry
    \/ flushPoolNoRetry
    \/ \E g \in Guids : getConnection(g)
    \/ \E t \in TIds : registerPublisher(t)
    \/ \E err \in BOOLEAN : createChannelCallback(err)
    \/ \E err \in BOOLEAN : checkExchangeCallback(err)

SpecPool == Init /\ [][NextPool]_vars

\* One Connect object whose caller registers two handlers, with a broker
\* that accepts every connect, and callers that flush the pool and revive.
NextChannels ==
    \/ \E g \in {1} : Construct(g)
    \/ \E g \in Guids, config \in Configs :
          UserConnect(g, config, <<Orders, Audit>>, TRUE)
    \/ \E g \in Guids, kind \in Kinds, config \in ConfigVals : ConnectOk(g, kind, config)
    \/ \E g \in Guids, kind \in TimerKinds, config \in ConfigVals : TimerFire(g, kind, config)
    \/ \E t \in TIds, err \in Errs : CloseEvent(t, err)
    \/ \E t \in TIds, d \in Descs : ChannelOpened(t, d)
    \/ \E t \in TIds, d \in Descs : ChannelOpenFailed(t, d)
    \/ \E t \in TIds, d \in Descs : ChannelClose(t, d)
    \/ \E t \in TIds, message \in {"Connection closing", "Unexpected close"} :
          ErrorEvent(t, message)
    \/ \E g \in Guids : reviveConnection(g)
    \/ flushPoolRetry
    \/ flushPoolNoRetry

SpecChannels == Init /\ [][NextChannels]_vars

====
